---- MODULE Spec2Model ----
(***************************************************************************)
(* monoxide-auto-indexer: the query hook of src/index.js (candidate        *)
(* extraction, the throttled existing-index cache, reconciliation against  *)
(* the store) and its index cleaner, as state machines.                    *)
(*                                                                         *)
(* A JavaScript string is a sequence of one-character strings, compared by *)
(* character code as JavaScript compares it.  A JavaScript object is the   *)
(* sequence of its [k, v] entries in insertion order.  An optional value   *)
(* (undefined or a value) is a sequence of length 0 or 1.                  *)
(*                                                                         *)
(* The libraries the hook calls are modelled by what they do at the call   *)
(* sites: async-chainable starts the tasks of parallel() and forEach()     *)
(* together, ends the chain when every task it started has called back,    *)
(* and passes the last error reported to end(); monoxide's fire() runs the *)
(* registered handlers and then its callback; model.meta() in the query    *)
(* hook reads the in-memory schema and does not fail; getIndexes and       *)
(* createIndex are store round trips that succeed or fail.                 *)
(*                                                                         *)
(* cleanIndexes of src/index.js is the second state machine: a pass over   *)
(* the registered models, here the collection of the queries and one       *)
(* other.  map() over monoxide.models keeps, per model id, the value its   *)
(* task gave to next (undefined when it gave none); the store refuses to   *)
(* drop the index of the primary key and an index it does not have; a      *)
(* TypeError thrown inside a stage either escapes the chain (finish is     *)
(* never called) or reaches finish as the error.                           *)
(***************************************************************************)
EXTENDS Integers, Sequences, FiniteSets, TLC

\* ------------------------------------------------------------------ bounds
MaxTime == 1
MaxThrottle == 1
MaxQueries == 2
MaxHits == 1
MaxPasses == 1

\* ----------------------------------------------------------------- strings
Code(c) ==
    CASE c = "$" -> 36 [] c = "," -> 44 [] c = "-" -> 45 [] c = "_" -> 95
      [] c = "a" -> 97 [] c = "d" -> 100 [] c = "e" -> 101 [] c = "g" -> 103
      [] c = "i" -> 105 [] c = "l" -> 108 [] c = "m" -> 109 [] c = "n" -> 110
      [] c = "o" -> 111 [] c = "r" -> 114 [] c = "s" -> 115 [] c = "t" -> 116

RECURSIVE StrLess(_, _)
StrLess(a, b) ==
    IF b = <<>> THEN FALSE
    ELSE IF a = <<>> THEN TRUE
    ELSE IF Code(Head(a)) # Code(Head(b)) THEN Code(Head(a)) < Code(Head(b))
    ELSE StrLess(Tail(a), Tail(b))

startsWith(str, c) == str # <<>> /\ Head(str) = c

RECURSIVE trimStart(_, _)
trimStart(str, c) == IF startsWith(str, c) THEN trimStart(Tail(str), c) ELSE str

RECURSIVE join(_, _)
join(arr, sep) ==
    IF arr = <<>> THEN <<>>
    ELSE IF Len(arr) = 1 THEN arr[1]
    ELSE arr[1] \o sep \o join(Tail(arr), sep)

\* Stable insertion of the string x into the sorted array of strings
RECURSIVE insert(_, _)
insert(sorted, x) ==
    IF sorted = <<>> THEN <<x>>
    ELSE IF StrLess(x, Head(sorted)) THEN <<x>> \o sorted
    ELSE <<Head(sorted)>> \o insert(Tail(sorted), x)

\* Array.prototype.sort() with the default comparator, on an array of strings
RECURSIVE sort(_)
sort(arr) ==
    IF arr = <<>> THEN <<>>
    ELSE insert(sort(SubSeq(arr, 1, Len(arr) - 1)), arr[Len(arr)])

JoinComma(i) == join(i, <<",">>)

\* Stable insertion of the array x into a list of arrays sorted by join(',')
RECURSIVE insertByJoin(_, _)
insertByJoin(sorted, x) ==
    IF sorted = <<>> THEN <<x>>
    ELSE IF StrLess(JoinComma(x), JoinComma(Head(sorted))) THEN <<x>> \o sorted
    ELSE <<Head(sorted)>> \o insertByJoin(Tail(sorted), x)

\* _.sortBy(list, i => i.join(','))
RECURSIVE sortByJoin(_)
sortByJoin(list) ==
    IF list = <<>> THEN <<>>
    ELSE insertByJoin(sortByJoin(SubSeq(list, 1, Len(list) - 1)), list[Len(list)])

\* ----------------------------------------------------------------- objects
ObjKeys(obj) == {obj[j].k : j \in DOMAIN obj}
ObjGet(obj, key) == (CHOOSE j \in DOMAIN obj : obj[j].k = key)
ObjHas(obj, key) == key \in ObjKeys(obj)

\* obj[key] = val
ObjSet(obj, key, val) ==
    IF ObjHas(obj, key)
    THEN [obj EXCEPT ![ObjGet(obj, key)] = [k |-> key, v |-> val]]
    ELSE Append(obj, [k |-> key, v |-> val])

\* _.isEqual on two plain objects: same keys, same values, any key order
isEqual(a, b) ==
    /\ ObjKeys(a) = ObjKeys(b)
    /\ \A key \in ObjKeys(a) : a[ObjGet(a, key)].v = b[ObjGet(b, key)].v


\* ------------------------------------------------------------------ inputs
name == <<"n", "a", "m", "e">>
role == <<"r", "o", "l", "e">>
tags == <<"t", "a", "g", "s">>
or   == <<"$", "o", "r">>
id   == <<"_", "i", "d">>
Desc(field) == <<"-">> \o field

NoSort == <<>>
Sort(list) == <<list>>
Q(filter, srt) == [filter |-> filter, sort |-> srt]

\* The query shapes a single query is drawn from.
Filters == {<<>>, <<or>>, <<name>>, <<role>>, <<name, role>>, <<role, name>>,
            <<or, role, name>>, <<tags>>}
Sorts == {NoSort, Sort(<<name>>), Sort(<<Desc(name)>>), Sort(<<role>>),
          Sort(<<role, name>>), Sort(<<role, Desc(name)>>), Sort(<<tags>>),
          Sort(<<Desc(tags)>>)}
Queries == {Q(f, s) : f \in Filters, s \in Sorts}

\* The query shapes of queries that follow one another.
SeqQueries == {Q(<<>>, NoSort), Q(<<name>>, Sort(<<name>>)), Q(<<role>>, Sort(<<name>>)),
               Q(<<role, name>>, Sort(<<Desc(name)>>)), Q(<<name, role>>, NoSort)}

\* The query shapes of racing queries.
RaceQueries == {Q(<<>>, NoSort), Q(<<name>>, Sort(<<name>>)), Q(<<role>>, NoSort)}

\* The schema of the collection, as model.meta() reports it.
Meta == << [k |-> id,   v |-> "objectid"],
           [k |-> name, v |-> "string"],
           [k |-> role, v |-> "string"],
           [k |-> tags, v |-> "array"] >>

\* The indexes the collection starts with: the primary key and a declared one.
InitialStore == << [key |-> <<[k |-> id, v |-> 1]>>],
                   [key |-> <<[k |-> role, v |-> 1]>>] >>

Slots == {1, 2}

\* monoxide.models, in key order: the collection the queries are on, and another.
users == "users"
widgetsId == "widgets"
Models == <<users, widgetsId>>

\* The indexes the second collection starts with.
InitialWidgets == << [key |-> <<[k |-> id, v |-> 1]>>],
                     [key |-> <<[k |-> name, v |-> 1]>>] >>

\* model.meta({$indexes: true}): each path's type and whether the schema
\* declares an index on it.
MetaIndexes(modelId) ==
    IF modelId = users
    THEN << [k |-> id,   v |-> [type |-> "objectid", index |-> FALSE]],
            [k |-> name, v |-> [type |-> "string", index |-> FALSE]],
            [k |-> role, v |-> [type |-> "string", index |-> TRUE]],
            [k |-> tags, v |-> [type |-> "array", index |-> FALSE]] >>
    ELSE << [k |-> id,   v |-> [type |-> "objectid", index |-> FALSE]],
            [k |-> name, v |-> [type |-> "string", index |-> FALSE]] >>

\* --------------------------------------------------- query shape extractor
fields(q) == SelectSeq(q.filter, LAMBDA field : ~startsWith(field, "$"))

\* pushed with the sort clause ahead of the filter fields
pushedSortFirst(q) ==
    (IF q.sort # NoSort THEN <<q.sort[1]>> ELSE <<>>)
    \o (IF fields(q) # <<>> THEN <<fields(q)>> ELSE <<>>)

\* The candidates pushed before sorting: filter fields, then q.$sort itself
pushed(q) ==
    (IF fields(q) # <<>> THEN <<fields(q)>> ELSE <<>>)
    \o (IF q.sort # NoSort THEN <<q.sort[1]>> ELSE <<>>)

\* sortIndexes without the sortBy over the list
sortFieldsOnly(indexes) == [j \in DOMAIN indexes |-> sort(indexes[j])]

sortIndexes(indexes) ==
    sortByJoin([j \in DOMAIN indexes |-> sort(indexes[j])])

\* The `indexes` task of the parallel block: [err, indexes, q], where q is the
\* query object afterwards (i.sort() sorts q.$sort in place).
indexesTask(q, set) ==
    IF pushed(q) = <<>>
    THEN [err |-> "SKIP", indexes |-> <<>>, q |-> q]
    ELSE IF set.sortIndexes
    THEN [err |-> "none",
          indexes |-> sortIndexes(pushed(q)),
          q |-> [q EXCEPT !.sort = IF q.sort = NoSort THEN NoSort
                                   ELSE Sort(sort(q.sort[1]))]]
    ELSE [err |-> "none", indexes |-> pushed(q), q |-> q]

\* Drop the candidates with a field the schema types as object or array
filterIndexes(indexes, meta) ==
    SelectSeq(indexes, LAMBDA index :
        \A j \in DOMAIN index :
            IF ~ObjHas(meta, index[j]) THEN TRUE
            ELSE meta[ObjGet(meta, index[j])].v \notin {"object", "array"})

\* ------------------------------------------------- index spec normalizer
RECURSIVE mapKeysIdentity(_)
mapKeysIdentity(arr) ==
    IF arr = <<>> THEN <<>>
    ELSE ObjSet(mapKeysIdentity(SubSeq(arr, 1, Len(arr) - 1)),
                arr[Len(arr)], arr[Len(arr)])

\* mapValuesDirection without the test for '-'
mapValuesAscending(obj) == [j \in DOMAIN obj |-> [k |-> obj[j].k, v |-> 1]]

mapValuesDirection(obj) ==
    [j \in DOMAIN obj |->
        [k |-> obj[j].k, v |-> IF startsWith(obj[j].v, "-") THEN -1 ELSE 1]]

RECURSIVE mapKeysTrim(_)
mapKeysTrim(obj) ==
    IF obj = <<>> THEN <<>>
    ELSE ObjSet(mapKeysTrim(SubSeq(obj, 1, Len(obj) - 1)),
                trimStart(obj[Len(obj)].k, "-"), obj[Len(obj)].v)

mongoSpec(index) == mapKeysTrim(mapValuesDirection(mapKeysIdentity(index)))

\* isExisting that finds nothing
isExistingNever(existingIndexes, spec) == FALSE

\* isExisting that finds every key
isExistingAlways(existingIndexes, spec) == TRUE

\* isExisting comparing the keys in order
isExistingOrdered(existingIndexes, spec) ==
    \E j \in DOMAIN existingIndexes : existingIndexes[j].key = spec

isExisting(existingIndexes, spec) ==
    \E j \in DOMAIN existingIndexes : isEqual(existingIndexes[j].key, spec)


\* --------------------------------------------------------- cleaner: inputs
ModelIds == {Models[j] : j \in DOMAIN Models}

\* settings.modelFilter, as the set of model ids it accepts.
ModelFilters == {ModelIds, {users}}

\* options.indexFilter: not given (<<>>), one predicate, a list of predicates
\* or null. "all" is a caller's predicate accepting every index; "notId" and
\* "notManual" are the two default predicates.
IndexFilters == {<<>>,
                 <<[kind |-> "function", tests |-> <<"all">>]>>,
                 <<[kind |-> "array", tests |-> <<"all">>]>>,
                 <<[kind |-> "null", tests |-> <<>>]>>}

CleanOptions == [modelFilter : ModelFilters,
                 indexFilter : IndexFilters,
                 ignoreErrors : BOOLEAN,
                 ignoreManualSpec : BOOLEAN,
                 dryRun : BOOLEAN,
                 hitMin : 0 .. MaxHits]

\* _.defaults(options, {...}): a given indexFilter replaces the default list.
defaults(options) ==
    [options EXCEPT !.indexFilter =
        IF @ = <<>> THEN [kind |-> "array", tests |-> <<"notId", "notManual">>]
        ELSE @[1]]

\* What the map stage leaves in this.indexes for a model the filter rejected.
Undefined == [undefined |-> TRUE]

\* One $indexStats row as the map stage records it.
Entry(modelId, key, hits) ==
    [model |-> modelId, path |-> key[1].k, spec |-> key, hits |-> hits,
     meta |-> <<>>]

\* _(this.indexes).values().flatten().value() over the models from position n
RECURSIVE flatten(_, _)
flatten(found, n) ==
    IF n > Len(Models) THEN <<>>
    ELSE (IF found[Models[n]] = <<>> THEN <<Undefined>> ELSE found[Models[n]][1])
         \o flatten(found, n + 1)

\* index => !_.isEqual(_.keys(index.spec), ['_id'])
notId(index) ==
    IF index = Undefined THEN "throw"
    ELSE IF [j \in DOMAIN index.spec |-> index.spec[j].k] = <<id>> THEN "false"
    ELSE "true"

\* The second default predicate: false for a path the schema declares indexed.
notManual(index, set) ==
    IF ~set.ignoreManualSpec THEN "true"
    ELSE IF index = Undefined THEN "throw"
    ELSE IF index.meta = <<>> THEN "true"
    ELSE IF ~ObjHas(index.meta[1], index.path) THEN "true"
    ELSE IF index.meta[1][ObjGet(index.meta[1], index.path)].v.index THEN "false"
    ELSE "true"

\* test.call(i, i)
test(t, index, set) ==
    IF t = "notId" THEN notId(index)
    ELSE IF t = "notManual" THEN notManual(index, set)
    ELSE "true"

\* settings.indexFilter.every(test => test.call(i, i))
RECURSIVE every(_, _, _)
every(tests, index, set) ==
    IF tests = <<>> THEN "true"
    ELSE LET r == test(Head(tests), index, set) IN
         IF r = "true" THEN every(Tail(tests), index, set) ELSE r

\* Filter by settings.indexFilter
indexFilter(index, set) ==
    IF set.indexFilter.kind = "function" THEN test(set.indexFilter.tests[1], index, set)
    ELSE IF set.indexFilter.kind = "array" THEN every(set.indexFilter.tests, index, set)
    ELSE "true"

\* Filter by hits
hitFilter(index, set) ==
    IF set.hitMin = 0 THEN "false"
    ELSE IF index = Undefined THEN "throw"
    ELSE IF index.hits < set.hitMin THEN "true"
    ELSE "false"

\* The two filters over this.indexes: the candidates, or a TypeError.
applyFilters(list, set) ==
    IF \E j \in DOMAIN list : indexFilter(list[j], set) = "throw"
    THEN [threw |-> TRUE, indexes |-> <<>>]
    ELSE LET byFilter == SelectSeq(list, LAMBDA i : indexFilter(i, set) = "true") IN
         IF \E j \in DOMAIN byFilter : hitFilter(byFilter[j], set) = "throw"
         THEN [threw |-> TRUE, indexes |-> <<>>]
         ELSE [threw |-> FALSE,
               indexes |-> SelectSeq(byFilter, LAMBDA i : hitFilter(i, set) = "true")]

\* The options a pass has before it is given any.
NoOptions == [modelFilter |-> ModelIds, indexFilter |-> <<>>, ignoreErrors |-> TRUE,
              ignoreManualSpec |-> TRUE, dryRun |-> FALSE, hitMin |-> MaxHits]


\* ------------------------------------------------------------------- state
VARIABLES
    settings,       \* the plugin's options, fixed at construction
    now,            \* Date.now()
    store,          \* the collection's indexes in the store, as getIndexes lists them
    aiIndexCache,   \* model.aiIndexCache: <<>> or <<[created, indexes]>>
    pc,             \* per hook invocation: "idle", "parallel", "forEach", "done"
    query,          \* the query object q given to the hook
    asked,          \* the query object as the caller passed it
    indexes,        \* this.indexes
    fetch,          \* the existingIndexes task: "pending", "called", "served", "finished", "failed"
    reply,          \* the store's answer to getIndexes, until the callback runs
    existingIndexes,\* this.existingIndexes
    err,            \* the error the chain ends with: "none", "SKIP", "fetch", "hook"
    task,           \* the forEach('indexes') tasks, one per candidate
    log,            \* what this hook invocation fired and called, in order; each
                    \* task keeps the events of its own candidate
    known,          \* the keys earlier, completed queries had created when this one began
    built,          \* the keys created by queries that have completed
    queries,        \* number of hook invocations so far
    widgets,        \* the indexes of the second collection, in its store
    cleanPc,        \* the cleaning pass: "idle", "map", "meta", "consider",
                    \* "forEach", "done", "thrown"
    cleanSettings,  \* the pass's settings
    cleanStats,     \* per model, its $indexStats request: "skipped", "asked", "done"
    cleanFound,     \* per model, what the map stage produced: <<>> is undefined
    cleanMeta,      \* per model, its meta() request: "none", "asked", "done"
    cleanList,      \* this.indexes, once flattened
    cleanErr,       \* the error the pass's chain ends with
    cleanTask,      \* the forEach('indexes') tasks of the pass, one per candidate
    cleanLog,       \* what the pass called and fired, other than per candidate
    passes          \* number of cleaning passes so far

vars == <<settings, now, store, aiIndexCache, pc, query, asked, indexes, fetch,
          reply, existingIndexes, err, task, log, known, built, queries,
          widgets, cleanPc, cleanSettings, cleanStats, cleanFound, cleanMeta,
          cleanList, cleanErr, cleanTask, cleanLog, passes>>

shared == <<settings, now, store, aiIndexCache>>
ghost == <<known, built, queries>>
hook == <<pc, query, asked, indexes, fetch, reply, existingIndexes, err, task, log>>
pass == <<cleanPc, cleanSettings, cleanStats, cleanFound, cleanMeta, cleanList,
          cleanErr, cleanTask, cleanLog, passes>>
cleaner == <<widgets, pass>>

Settings == [indexThrottle : 0 .. MaxThrottle,
             indexResetOnBuild : BOOLEAN,
             ignoreCreateErrors : BOOLEAN,
             sortIndexes : BOOLEAN]

\* The settings racing queries are checked under.
RaceSettings == {set \in Settings : ~set.sortIndexes /\ ~set.ignoreCreateErrors}

Start ==
    /\ now = 0
    /\ store = InitialStore
    /\ aiIndexCache = <<>>
    /\ pc = [s \in Slots |-> "idle"]
    /\ query = [s \in Slots |-> Q(<<>>, NoSort)]
    /\ asked = [s \in Slots |-> Q(<<>>, NoSort)]
    /\ indexes = [s \in Slots |-> <<>>]
    /\ fetch = [s \in Slots |-> "pending"]
    /\ reply = [s \in Slots |-> <<>>]
    /\ existingIndexes = [s \in Slots |-> <<>>]
    /\ err = [s \in Slots |-> "none"]
    /\ task = [s \in Slots |-> <<>>]
    /\ log = [s \in Slots |-> <<>>]
    /\ known = [s \in Slots |-> {}]
    /\ built = {}
    /\ queries = 0
    /\ widgets = InitialWidgets
    /\ cleanPc = "idle"
    /\ cleanSettings = defaults(NoOptions)
    /\ cleanStats = [m \in ModelIds |-> "skipped"]
    /\ cleanFound = [m \in ModelIds |-> <<>>]
    /\ cleanMeta = [m \in ModelIds |-> "none"]
    /\ cleanList = <<>>
    /\ cleanErr = "none"
    /\ cleanTask = <<>>
    /\ cleanLog = <<>>
    /\ passes = 0

Init == settings \in RaceSettings /\ Start
InitSeq == settings \in Settings /\ Start

\* The clock advances.
Tick ==
    /\ now < MaxTime
    /\ now' = now + 1
    /\ UNCHANGED <<settings, store, aiIndexCache, pc, query, asked, indexes,
                   fetch, reply, existingIndexes, err, task, log, ghost, cleaner>>

\* model.hook('query', (done, q) => ...): the hook is invoked with q and the
\* `indexes` task of the parallel block runs.
Query(s, q) ==
    /\ pc[s] \in {"idle", "done"}
    /\ queries < MaxQueries
    /\ queries' = queries + 1
    /\ LET r == indexesTask(q, settings) IN
        /\ query' = [query EXCEPT ![s] = r.q]
        /\ indexes' = [indexes EXCEPT ![s] = r.indexes]
        /\ err' = [err EXCEPT ![s] = r.err]
    /\ asked' = [asked EXCEPT ![s] = q]
    /\ pc' = [pc EXCEPT ![s] = "parallel"]
    /\ fetch' = [fetch EXCEPT ![s] = "pending"]
    /\ reply' = [reply EXCEPT ![s] = <<>>]
    /\ existingIndexes' = [existingIndexes EXCEPT ![s] = <<>>]
    /\ task' = [task EXCEPT ![s] = <<>>]
    /\ log' = [log EXCEPT ![s] = <<>>]
    /\ known' = [known EXCEPT ![s] = built]
    /\ UNCHANGED <<shared, built, cleaner>>

\* The cache entry is missing or older than the throttle
mustFetch(cache, time, set) ==
    \/ cache = <<>>
    \/ cache[1].created < time - set.indexThrottle

\* The `existingIndexes` task: use the cache entry or ask the store.
ExistingIndexes(s) ==
    /\ pc[s] = "parallel"
    /\ fetch[s] = "pending"
    /\ IF mustFetch(aiIndexCache, now, settings)
       THEN /\ fetch' = [fetch EXCEPT ![s] = "called"]
            /\ UNCHANGED existingIndexes
       ELSE /\ fetch' = [fetch EXCEPT ![s] = "finished"]
            /\ existingIndexes' = [existingIndexes EXCEPT ![s] = aiIndexCache[1].indexes]
    /\ UNCHANGED <<shared, pc, query, asked, indexes, reply, err, task, log, ghost, cleaner>>

\* The store answers getIndexes with its indexes, or fails.
GetIndexesServe(s, ok) ==
    /\ fetch[s] = "called"
    /\ fetch' = [fetch EXCEPT ![s] = "served"]
    /\ reply' = [reply EXCEPT ![s] =
                    IF ok THEN <<[err |-> FALSE, indexes |-> store]>>
                    ELSE <<[err |-> TRUE, indexes |-> <<>>]>>]
    /\ UNCHANGED <<shared, pc, query, asked, indexes, existingIndexes, err,
                   task, log, ghost, cleaner>>

\* cacheAfterFetch writing an entry whatever the answer
cacheAfterFetchAlways(cache, time, answer) ==
    <<[created |-> time, indexes |-> answer.indexes]>>

\* model.aiIndexCache once the getIndexes callback has run
cacheAfterFetch(cache, time, answer) ==
    IF answer.err THEN cache
    ELSE <<[created |-> time, indexes |-> answer.indexes]>>

\* The getIndexes callback.
GetIndexesCallback(s) ==
    /\ fetch[s] = "served"
    /\ reply' = [reply EXCEPT ![s] = <<>>]
    /\ aiIndexCache' = cacheAfterFetch(aiIndexCache, now, reply[s][1])
    /\ IF reply[s][1].err
       THEN /\ fetch' = [fetch EXCEPT ![s] = "failed"]
            /\ err' = [err EXCEPT ![s] = "fetch"]
            /\ UNCHANGED existingIndexes
       ELSE /\ fetch' = [fetch EXCEPT ![s] = "finished"]
            /\ existingIndexes' = [existingIndexes EXCEPT ![s] = reply[s][1].indexes]
            /\ UNCHANGED err
    /\ UNCHANGED <<settings, now, store, pc, query, asked, indexes, task, log, ghost, cleaner>>


\* The canonical form of a key: its (field, direction) pairs, in no order.
Canon(spec) == {<<spec[j].k, spec[j].v>> : j \in DOMAIN spec}

newTask == [pc |-> "start", spec |-> <<>>, veto |-> FALSE, ok |-> FALSE,
            buildResult |-> <<>>, log |-> <<>>]

\* The parallel block succeeded: drop the container-typed candidates and fire
\* autoIndexer.query with the rest; its handlers' outcome is ignored.
FireQuery(s) ==
    /\ pc[s] = "parallel"
    /\ fetch[s] = "finished"
    /\ err[s] = "none"
    /\ LET kept == filterIndexes(indexes[s], Meta) IN
        /\ indexes' = [indexes EXCEPT ![s] = kept]
        /\ log' = [log EXCEPT ![s] = Append(@,
                    [type |-> "autoIndexer.query", indexes |-> kept])]
        /\ task' = [task EXCEPT ![s] = [i \in DOMAIN kept |-> newTask]]
    /\ pc' = [pc EXCEPT ![s] = "forEach"]
    /\ UNCHANGED <<shared, query, asked, fetch, reply, existingIndexes, err, ghost, cleaner>>

\* forEach('indexes'): skip the candidate when its key is in the snapshot,
\* else fire autoIndexer.build.
ForEachIndex(s, i) ==
    /\ pc[s] = "forEach"
    /\ i \in DOMAIN task[s]
    /\ task[s][i].pc = "start"
    /\ LET spec == mongoSpec(indexes[s][i]) IN
        IF isExisting(existingIndexes[s], spec)
        THEN task' = [task EXCEPT ![s][i].pc = "finished", ![s][i].spec = spec]
        ELSE task' = [task EXCEPT ![s][i].pc = "build", ![s][i].spec = spec,
                        ![s][i].log = Append(@,
                            [type |-> "autoIndexer.build",
                             index |-> indexes[s][i], mongoSpec |-> spec])]
    /\ UNCHANGED <<shared, pc, query, asked, indexes, fetch, reply,
                   existingIndexes, err, log, ghost, cleaner>>

\* The autoIndexer.build handlers have returned, reporting success or a
\* failure (veto); the callback ()=> next() drops what they reported and
\* createIndex is issued.
CreateIndex(s, i, buildOk) ==
    /\ pc[s] = "forEach"
    /\ i \in DOMAIN task[s]
    /\ task[s][i].pc = "build"
    /\ task' = [task EXCEPT ![s][i].pc = "creating", ![s][i].veto = ~buildOk,
                   ![s][i].log = Append(@,
                        [type |-> "createIndex", key |-> task[s][i].spec])]
    /\ UNCHANGED <<shared, pc, query, asked, indexes, fetch, reply,
                   existingIndexes, err, log, ghost, cleaner>>

\* The store's createIndex: a key it already has is a no-op
storeCreate(list, spec) ==
    IF \E j \in DOMAIN list : list[j].key = spec THEN list
    ELSE Append(list, [key |-> spec])

\* The store builds the index, or fails to.
CreateIndexServe(s, i, ok) ==
    /\ pc[s] = "forEach"
    /\ i \in DOMAIN task[s]
    /\ task[s][i].pc = "creating"
    /\ task' = [task EXCEPT ![s][i].pc = "settled", ![s][i].ok = ok]
    /\ store' = IF ok THEN storeCreate(store, task[s][i].spec) ELSE store
    /\ UNCHANGED <<settings, now, aiIndexCache, pc, query, asked, indexes, fetch,
                   reply, existingIndexes, err, log, ghost, cleaner>>

\* cacheAfterBuild that never resets
cacheKept(cache, set) == cache

\* The cache after createIndex resolved
cacheAfterBuild(cache, set) == IF set.indexResetOnBuild THEN <<>> ELSE cache

\* buildResult after createIndex rejected
buildResultOnError(set) == IF set.ignoreCreateErrors THEN <<>> ELSE <<"Error">>

\* The createIndex promise settles (.then / .catch) and autoIndexer.postBuild
\* is fired with buildResult.
CreateIndexSettled(s, i) ==
    /\ pc[s] = "forEach"
    /\ i \in DOMAIN task[s]
    /\ task[s][i].pc = "settled"
    /\ LET result == IF task[s][i].ok THEN <<>> ELSE buildResultOnError(settings) IN
        task' = [task EXCEPT ![s][i].pc = "postBuild", ![s][i].buildResult = result,
                   ![s][i].log = Append(Append(@,
                        [type |-> "settled", ok |-> task[s][i].ok]),
                        [type |-> "autoIndexer.postBuild",
                         index |-> indexes[s][i], mongoSpec |-> task[s][i].spec,
                         err |-> result])]
    /\ aiIndexCache' = IF task[s][i].ok THEN cacheAfterBuild(aiIndexCache, settings)
                       ELSE aiIndexCache
    /\ UNCHANGED <<settings, now, store, pc, query, asked, indexes, fetch, reply,
                   existingIndexes, err, log, ghost, cleaner>>

\* The autoIndexer.postBuild handlers have returned; a failure of theirs is
\* the task's error.
PostBuildReturn(s, i, hookOk) ==
    /\ pc[s] = "forEach"
    /\ i \in DOMAIN task[s]
    /\ task[s][i].pc = "postBuild"
    /\ task' = [task EXCEPT ![s][i].pc = "finished",
                   ![s][i].log = Append(@, [type |-> "postBuild.returned"])]
    /\ err' = [err EXCEPT ![s] = IF hookOk THEN @ ELSE "hook"]
    /\ UNCHANGED <<shared, pc, query, asked, indexes, fetch, reply,
                   existingIndexes, log, ghost, cleaner>>

\* chainFinished ending the chain on a task's error, the others still running
chainFailFast(s) ==
    \/ pc[s] = "parallel" /\ err[s] # "none"
    \/ pc[s] = "forEach" /\ err[s] # "none"
    \/ pc[s] = "forEach" /\ \A i \in DOMAIN task[s] : task[s][i].pc = "finished"

\* Every task the chain started has called back
chainFinished(s) ==
    \/ pc[s] = "parallel" /\ fetch[s] \in {"finished", "failed"} /\ err[s] # "none"
    \/ pc[s] = "forEach" /\ \A i \in DOMAIN task[s] : task[s][i].pc = "finished"

\* What end(err) passes to done
doneArg(e) == IF e = "SKIP" THEN "none" ELSE e

\* .end(function(err) {...}): the hook signals completion.
End(s) ==
    /\ chainFinished(s)
    /\ pc' = [pc EXCEPT ![s] = "done"]
    /\ log' = [log EXCEPT ![s] = Append(@, [type |-> "done", err |-> doneArg(err[s])])]
    /\ built' = built \cup {Canon(task[s][i].spec) :
                    i \in {j \in DOMAIN task[s] : task[s][j].ok}}
    /\ UNCHANGED <<shared, query, asked, indexes, fetch, reply, existingIndexes,
                   err, task, known, queries, cleaner>>

\* The steps of one hook invocation; outcomes is what the autoIndexer.build
\* handlers may report.
StepWith(s, outcomes) ==
    \/ ExistingIndexes(s)
    \/ \E ok \in BOOLEAN : GetIndexesServe(s, ok)
    \/ GetIndexesCallback(s)
    \/ FireQuery(s)
    \/ \E i \in 1 .. 2 :
        \/ ForEachIndex(s, i)
        \/ \E buildOk \in outcomes : CreateIndex(s, i, buildOk)
        \/ \E ok \in BOOLEAN : CreateIndexServe(s, i, ok)
        \/ CreateIndexSettled(s, i)
        \/ \E hookOk \in BOOLEAN : PostBuildReturn(s, i, hookOk)
    \/ End(s)

\* The steps of a hook invocation whose autoIndexer.build handlers succeed.
Step(s) == StepWith(s, {TRUE})

\* Two queries of one collection, racing; the hook invocations are numbered in
\* the order they begin.
Next ==
    \/ Tick
    \/ \E s \in Slots, q \in RaceQueries :
        /\ \A r \in Slots : (r < s) <=> pc[r] # "idle"
        /\ Query(s, q)
    \/ \E s \in Slots : Step(s)

Spec == Init /\ [][Next]_vars

\* Queries of one collection, one at a time.
NextSeq ==
    \/ Tick
    \/ \E q \in SeqQueries : Query(1, q)
    \/ Step(1)

SpecSeq == InitSeq /\ [][NextSeq]_vars

\* One query of any shape.
NextOne ==
    \/ Tick
    \/ \E q \in Queries : queries = 0 /\ Query(1, q)
    \/ Step(1)

SpecOne == InitSeq /\ [][NextOne]_vars

\* One query, with autoIndexer.build handlers that may report failure.
NextVeto ==
    \/ Tick
    \/ \E q \in SeqQueries : queries = 0 /\ Query(1, q)
    \/ StepWith(1, BOOLEAN)

SpecVeto == InitSeq /\ [][NextVeto]_vars


\* ------------------------------------------------------- cleaner: actions
\* The indexes a model has in the store.
indexesOf(modelId) == IF modelId = users THEN store ELSE widgets

\* The $indexStats requests of the accepted models from position n, in the
\* order the map stage issues them
RECURSIVE statsCalls(_, _)
statsCalls(accepted, n) ==
    IF n > Len(Models) THEN <<>>
    ELSE (IF Models[n] \in accepted
          THEN <<[type |-> "$indexStats", model |-> Models[n]]>> ELSE <<>>)
         \o statsCalls(accepted, n + 1)

\* cleanIndexes(options, finish): a pass begins and the map stage asks every
\* accepted model for its index statistics.
cleanIndexes(options) ==
    /\ cleanPc \in {"idle", "done", "thrown"}
    /\ passes < MaxPasses
    /\ passes' = passes + 1
    /\ cleanSettings' = defaults(options)
    /\ cleanPc' = "map"
    /\ cleanStats' = [m \in ModelIds |->
                        IF m \in options.modelFilter THEN "asked" ELSE "skipped"]
    /\ cleanFound' = [m \in ModelIds |-> <<>>]
    /\ cleanMeta' = [m \in ModelIds |-> "none"]
    /\ cleanList' = <<>>
    /\ cleanErr' = "none"
    /\ cleanTask' = <<>>
    /\ cleanLog' = statsCalls(options.modelFilter, 1)
    /\ UNCHANGED <<shared, hook, ghost, widgets>>

\* The store answers aggregate({$indexStats: {}}) with a row per index, each
\* with some hit count, or fails.
Aggregate(m, ok) ==
    /\ cleanPc = "map"
    /\ cleanStats[m] = "asked"
    /\ cleanStats' = [cleanStats EXCEPT ![m] = "done"]
    /\ IF ok
       THEN /\ \E hits \in [DOMAIN indexesOf(m) -> 0 .. MaxHits] :
                cleanFound' = [cleanFound EXCEPT ![m] =
                    <<[j \in DOMAIN indexesOf(m) |->
                        Entry(m, indexesOf(m)[j].key, hits[j])]>>]
            /\ UNCHANGED cleanErr
       ELSE /\ cleanErr' = "stats"
            /\ UNCHANGED cleanFound
    /\ UNCHANGED <<shared, hook, ghost, widgets, cleanPc, cleanSettings, cleanMeta,
                   cleanList, cleanTask, cleanLog, passes>>

\* The chain ends with e and finish(e) is called
finish(e) ==
    /\ cleanPc' = "done"
    /\ cleanErr' = e
    /\ cleanLog' = Append(cleanLog, [type |-> "finish", err |-> e])

\* A stage threw a TypeError: nothing in the chain handles it and finish is
\* never called, or the chain hands it to finish.
Throw ==
    \/ cleanPc' = "thrown" /\ cleanErr' = "TypeError" /\ UNCHANGED cleanLog
    \/ finish("TypeError")

\* The map stage is over: an error ends the pass; else this.indexes is
\* flattened and, with ignoreManualSpec, the models of its entries are asked
\* for their schema.
Flatten ==
    /\ cleanPc = "map"
    /\ \A m \in ModelIds : cleanStats[m] # "asked"
    /\ LET list == flatten(cleanFound, 1) IN
        IF cleanErr # "none"
        THEN finish(cleanErr) /\ UNCHANGED <<cleanList, cleanMeta>>
        ELSE IF ~cleanSettings.ignoreManualSpec
        THEN /\ cleanList' = list
             /\ cleanPc' = "consider"
             /\ UNCHANGED <<cleanMeta, cleanLog, cleanErr>>
        ELSE IF \E j \in DOMAIN list : list[j] = Undefined
        THEN Throw /\ UNCHANGED <<cleanList, cleanMeta>>
        ELSE /\ cleanList' = list
             /\ cleanMeta' = [m \in ModelIds |->
                    IF \E j \in DOMAIN list : list[j].model = m THEN "asked"
                    ELSE "none"]
             /\ cleanPc' = "meta"
             /\ UNCHANGED <<cleanLog, cleanErr>>
    /\ UNCHANGED <<shared, hook, ghost, widgets, cleanSettings, cleanStats,
                   cleanFound, cleanTask, passes>>

\* model.meta({$indexes: true}, ...) answers, or fails.
ModelMeta(m, ok) ==
    /\ cleanPc = "meta"
    /\ cleanMeta[m] = "asked"
    /\ cleanMeta' = [cleanMeta EXCEPT ![m] = "done"]
    /\ cleanErr' = IF ok THEN cleanErr ELSE "meta"
    /\ UNCHANGED <<shared, hook, ghost, widgets, cleanPc, cleanSettings, cleanStats,
                   cleanFound, cleanList, cleanTask, cleanLog, passes>>

\* Every meta request is over: an error ends the pass, else each entry gets
\* its model's schema.
Glue ==
    /\ cleanPc = "meta"
    /\ \A m \in ModelIds : cleanMeta[m] # "asked"
    /\ IF cleanErr # "none"
       THEN finish(cleanErr) /\ UNCHANGED cleanList
       ELSE /\ cleanList' = [j \in DOMAIN cleanList |->
                    [cleanList[j] EXCEPT !.meta = <<MetaIndexes(cleanList[j].model)>>]]
            /\ cleanPc' = "consider"
            /\ UNCHANGED <<cleanLog, cleanErr>>
    /\ UNCHANGED <<shared, hook, ghost, widgets, cleanSettings, cleanStats,
                   cleanFound, cleanMeta, cleanTask, passes>>

\* autoIndexer.consider is fired with this.indexes; its handlers' failure ends
\* the pass, else the filters leave the candidates and the removal begins.
Consider(hookOk) ==
    /\ cleanPc = "consider"
    /\ LET fired == Append(cleanLog,
                        [type |-> "autoIndexer.consider", indexes |-> cleanList])
           r == applyFilters(cleanList, cleanSettings) IN
        IF ~hookOk
        THEN /\ cleanPc' = "done"
             /\ cleanLog' = Append(fired, [type |-> "finish", err |-> "hook"])
             /\ cleanErr' = "hook"
             /\ UNCHANGED <<cleanList, cleanTask>>
        ELSE IF r.threw
        THEN /\ \/ cleanPc' = "thrown" /\ cleanLog' = fired
                \/ /\ cleanPc' = "done"
                   /\ cleanLog' = Append(fired, [type |-> "finish", err |-> "TypeError"])
             /\ cleanErr' = "TypeError"
             /\ UNCHANGED <<cleanList, cleanTask>>
        ELSE /\ cleanList' = r.indexes
             /\ cleanTask' = [j \in DOMAIN r.indexes |->
                                [pc |-> "start", ok |-> FALSE, log |-> <<>>]]
             /\ cleanPc' = "forEach"
             /\ cleanLog' = fired
             /\ UNCHANGED cleanErr
    /\ UNCHANGED <<shared, hook, ghost, widgets, cleanSettings, cleanStats,
                   cleanFound, cleanMeta, passes>>

\* issuesDrop in a pass that drops even when dry
issuesDropAlways(set) == TRUE

\* dropIndex is called for a candidate
issuesDrop(set) == ~set.dryRun

\* forEach('indexes'): autoIndexer.clean is fired for the candidate and, unless
\* the pass is a dry run, dropIndex is called with its key.
CleanIndex(j) ==
    /\ cleanPc = "forEach"
    /\ j \in DOMAIN cleanTask
    /\ cleanTask[j].pc = "start"
    /\ cleanTask' = [cleanTask EXCEPT ![j] =
            IF issuesDrop(cleanSettings)
            THEN [@ EXCEPT !.pc = "dropping",
                    !.log = <<[type |-> "autoIndexer.clean"], [type |-> "dropIndex"]>>]
            ELSE [@ EXCEPT !.pc = "finished",
                    !.log = <<[type |-> "autoIndexer.clean"]>>]]
    /\ UNCHANGED <<shared, hook, ghost, widgets, cleanPc, cleanSettings, cleanStats,
                   cleanFound, cleanMeta, cleanList, cleanErr, cleanLog, passes>>

\* The store's dropIndex: the index with that key goes
storeDrop(list, spec) == SelectSeq(list, LAMBDA i : i.key # spec)

\* The store can drop the key: it has it and it is not the primary key's
droppable(list, spec) ==
    /\ \E j \in DOMAIN list : list[j].key = spec
    /\ spec # <<[k |-> id, v |-> 1]>>

\* The store drops the index, or fails to, and the dropIndex callback runs: an
\* error is the task's error unless ignoreErrors.
DropIndexReply(j, ok) ==
    /\ cleanPc = "forEach"
    /\ j \in DOMAIN cleanTask
    /\ cleanTask[j].pc = "dropping"
    /\ ok => droppable(indexesOf(cleanList[j].model), cleanList[j].spec)
    /\ cleanTask' = [cleanTask EXCEPT ![j].pc = "finished", ![j].ok = ok]
    /\ IF ok /\ cleanList[j].model = users
       THEN store' = storeDrop(store, cleanList[j].spec) ELSE UNCHANGED store
    /\ IF ok /\ cleanList[j].model # users
       THEN widgets' = storeDrop(widgets, cleanList[j].spec) ELSE UNCHANGED widgets
    /\ cleanErr' = IF ~ok /\ ~cleanSettings.ignoreErrors THEN "drop" ELSE cleanErr
    /\ UNCHANGED <<settings, now, aiIndexCache, hook, ghost, cleanPc, cleanSettings,
                   cleanStats, cleanFound, cleanMeta, cleanList, cleanLog, passes>>

\* .end(finish): every candidate's task has called back.
CleanEnd ==
    /\ cleanPc = "forEach"
    /\ \A j \in DOMAIN cleanTask : cleanTask[j].pc = "finished"
    /\ finish(cleanErr)
    /\ UNCHANGED <<shared, hook, ghost, widgets, cleanSettings, cleanStats,
                   cleanFound, cleanMeta, cleanList, cleanTask, passes>>

CleanStep ==
    \/ \E m \in ModelIds, ok \in BOOLEAN : Aggregate(m, ok)
    \/ Flatten
    \/ \E m \in ModelIds, ok \in BOOLEAN : ModelMeta(m, ok)
    \/ Glue
    \/ \E hookOk \in BOOLEAN : Consider(hookOk)
    \/ \E j \in DOMAIN cleanTask :
        \/ CleanIndex(j)
        \/ \E ok \in BOOLEAN : DropIndexReply(j, ok)
    \/ CleanEnd

\* The plugin's settings while only the cleaner runs.
CleanerSettings == [indexThrottle |-> MaxThrottle, indexResetOnBuild |-> TRUE,
                    ignoreCreateErrors |-> FALSE, sortIndexes |-> FALSE]

InitClean == settings = CleanerSettings /\ Start

\* Cleaning passes over the two collections, one at a time.
NextClean ==
    \/ \E options \in CleanOptions : cleanIndexes(options)
    \/ CleanStep

SpecClean == InitClean /\ [][NextClean]_vars


\* ------------------------------------------------ queries and the cleaner
\* The query shapes of queries that run before and after a cleaning pass.
CleanedQueries == {Q(<<role>>, NoSort), Q(<<>>, Sort(<<name>>))}

\* The options of a pass that drops: every model accepted, the default
\* filters, with or without ignoreManualSpec.
DroppingOptions ==
    {options \in CleanOptions :
        /\ options.modelFilter = ModelIds
        /\ options.indexFilter = <<>>
        /\ options.ignoreErrors
        /\ ~options.dryRun
        /\ options.hitMin = MaxHits}

\* No cleaning pass is running
CleanerQuiet == cleanPc \in {"idle", "done", "thrown"}

\* No hook invocation is running
HookQuiet == \A s \in Slots : pc[s] \in {"idle", "done"}

\* Queries of one collection and cleaning passes, one at a time.
NextBoth ==
    \/ Tick
    \/ \E q \in CleanedQueries : CleanerQuiet /\ Query(1, q)
    \/ Step(1)
    \/ \E options \in DroppingOptions : HookQuiet /\ cleanIndexes(options)
    \/ CleanStep

SpecBoth == Init /\ [][NextBoth]_vars


\* ================================================================== claims
Tasks == {<<s, i>> \in Slots \X (1 .. 2) : i \in DOMAIN task[s]}
Types(events) == [j \in DOMAIN events |-> events[j].type]
Has(events, type) == \E j \in DOMAIN events : events[j].type = type
Count(events, type) == Cardinality({j \in DOMAIN events : events[j].type = type})
IsPrefix(a, b) == Len(a) <= Len(b) /\ SubSeq(b, 1, Len(a)) = a

\* The canonical key the spec gives a candidate: each field without its
\* leading '-', -1 if it had one and +1 otherwise.
KeyOf(index) ==
    [j \in DOMAIN index |->
        [k |-> IF Head(index[j]) = "-" THEN Tail(index[j]) ELSE index[j],
         v |-> IF Head(index[j]) = "-" THEN -1 ELSE 1]]

\* The candidate's key structurally equals the key of an index of the snapshot
InSnapshot(s, i) ==
    \E j \in DOMAIN existingIndexes[s] :
        Canon(existingIndexes[s][j].key) = Canon(KeyOf(indexes[s][i]))

\* The tasks that have issued createIndex with the canonical key `key`
Issued(key) ==
    {t \in Tasks : /\ Has(task[t[1]][t[2]].log, "createIndex")
                   /\ Canon(task[t[1]][t[2]].spec) = key}

Keys == {Canon(task[t[1]][t[2]].spec) : t \in Tasks}

\* C1 (as claimed): under every interleaving of query hooks on one collection,
\* createIndex is issued at most once for any canonical key.
C1_AtMostOncePerKey == \A key \in Keys : Cardinality(Issued(key)) <= 1

\* C1 (amended): each candidate of a query issues createIndex at most once, and
\* only when its key is absent from that query's snapshot; two candidates with
\* one key (of racing queries or of one query) each issue it.
C1_AtMostOncePerCandidate ==
    \A t \in Tasks :
        /\ Count(task[t[1]][t[2]].log, "createIndex") <= 1
        /\ Has(task[t[1]][t[2]].log, "createIndex") => ~InSnapshot(t[1], t[2])

\* C1 witness: two racing queries have both issued createIndex for one key.
C1_Witness ==
    \E key \in Keys : \E t, u \in Issued(key) : t[1] # u[1]

\* The store reports an index with the canonical key `key`
Reported(key) == \E j \in DOMAIN store : Canon(store[j].key) = key

\* A query that began after a query that created its candidate's key had
\* completed, and that fired autoIndexer.build or issued createIndex for it
Rebuilt(s, i) ==
    /\ Canon(KeyOf(indexes[s][i])) \in known[s]
    /\ Reported(Canon(KeyOf(indexes[s][i])))
    /\ task[s][i].log # <<>>

\* C2 (as claimed): for every indexResetOnBuild and indexThrottle, a query run
\* after a query that created an index has completed, while the store reports
\* the index, fires no autoIndexer.build and issues no createIndex for it.
C2_Idempotent == \A t \in Tasks : ~Rebuilt(t[1], t[2])

\* C2 (amended): the same, with indexResetOnBuild enabled and the queries run
\* one after the other.
C2_IdempotentOnReset ==
    settings.indexResetOnBuild => \A t \in Tasks : ~Rebuilt(t[1], t[2])

\* C2 witness: with indexResetOnBuild, a second query has skipped the candidate
\* whose index the first query created.
C2_Witness ==
    /\ settings.indexResetOnBuild
    /\ \E t \in Tasks :
        /\ Canon(KeyOf(indexes[t[1]][t[2]])) \in known[t[1]]
        /\ task[t[1]][t[2]].pc = "finished"
        /\ task[t[1]][t[2]].log = <<>>

\* C3: a candidate whose key structurally equals the key of an index of the
\* query's snapshot gets no autoIndexer.build, no createIndex and no
\* autoIndexer.postBuild.
C3_ExistingSkipped ==
    \A t \in Tasks :
        (task[t[1]][t[2]].pc # "start" /\ InSnapshot(t[1], t[2]))
            => task[t[1]][t[2]].pc = "finished" /\ task[t[1]][t[2]].log = <<>>

\* C3 witness: a two-field candidate was skipped for an index of the snapshot
\* that lists the same fields in the other order.
C3_Witness ==
    \E t \in Tasks :
        /\ task[t[1]][t[2]].pc = "finished"
        /\ task[t[1]][t[2]].log = <<>>
        /\ InSnapshot(t[1], t[2])
        /\ \A j \in DOMAIN existingIndexes[t[1]] :
            existingIndexes[t[1]][j].key # KeyOf(indexes[t[1]][t[2]])

Lifecycle == <<"autoIndexer.build", "createIndex", "settled",
               "autoIndexer.postBuild", "postBuild.returned">>

\* C4: a candidate whose key is absent from the snapshot gets, in this order,
\* autoIndexer.build with the candidate and its canonical key, createIndex with
\* that key, and autoIndexer.postBuild once createIndex has settled.
C4_BuildOrder ==
    \A t \in Tasks :
        LET events == task[t[1]][t[2]].log
            index == indexes[t[1]][t[2]] IN
        (task[t[1]][t[2]].pc # "start" /\ ~InSnapshot(t[1], t[2])) =>
            /\ events # <<>>
            /\ IsPrefix(Types(events), Lifecycle)
            /\ events[1].index = index
            /\ events[1].mongoSpec = KeyOf(index)
            /\ Len(events) >= 2 => events[2].key = KeyOf(index)
            /\ Len(events) >= 4 =>
                /\ events[4].index = index
                /\ events[4].mongoSpec = KeyOf(index)

\* C4 witness: a descending candidate has gone through the whole lifecycle.
C4_Witness ==
    \E t \in Tasks :
        /\ Types(task[t[1]][t[2]].log) = Lifecycle
        /\ indexes[t[1]][t[2]] = <<Desc(name)>>
        /\ task[t[1]][t[2]].log[2].key = <<[k |-> name, v |-> -1]>>


\* The hook has nothing of its own left running
OwnWorkOver(s) ==
    \/ pc[s] = "parallel" /\ fetch[s] \in {"finished", "failed"} /\ err[s] # "none"
    \/ /\ pc[s] = "forEach"
       /\ \A i \in DOMAIN task[s] :
            /\ task[s][i].pc # "start"
            /\ task[s][i].log = <<>> \/ Has(task[s][i].log, "postBuild.returned")

\* C5: a hook invocation calls done exactly once, never before each createIndex
\* it issued has settled and its postBuild handlers have returned, and as soon
\* as its own work is over, whatever other queries are doing.
C5_DoneOnce ==
    \A s \in Slots :
        /\ Count(log[s], "done") = IF pc[s] = "done" THEN 1 ELSE 0
        /\ pc[s] = "done" =>
            /\ fetch[s] \in {"finished", "failed"}
            /\ \A i \in DOMAIN task[s] :
                Has(task[s][i].log, "createIndex") =>
                    /\ Has(task[s][i].log, "settled")
                    /\ Has(task[s][i].log, "postBuild.returned")
        /\ OwnWorkOver(s) => ENABLED End(s)

\* C5 witness: a query that built an index is done while the candidate of a
\* racing query is still with the store.
C5_Witness ==
    \E s, r \in Slots :
        /\ s # r
        /\ pc[s] = "done"
        /\ \E i \in DOMAIN task[s] : Types(task[s][i].log) = Lifecycle
        /\ pc[r] = "forEach"
        /\ \E i \in DOMAIN task[r] : task[r][i].pc = "creating"

\* The filter has no key but keys starting with '$', and there is no sort clause
NothingToIndex(q) ==
    /\ \A j \in DOMAIN q.filter : Head(q.filter[j]) = "$"
    /\ q.sort = NoSort

\* C6: a query with nothing to index completes without error, fires no
\* autoIndexer.query and no autoIndexer.build and issues no createIndex.
C6_NoIndexNeeded ==
    \A s \in Slots :
        (pc[s] # "idle" /\ NothingToIndex(asked[s])) =>
            /\ task[s] = <<>>
            /\ ~Has(log[s], "autoIndexer.query")
            /\ pc[s] = "done" => log[s] = <<[type |-> "done", err |-> "none"]>>

\* The candidates the spec gives a query: the filter keys that do not start
\* with '$', then the sort clause as it is.
NonMeta(filter) == SelectSeq(filter, LAMBDA f : Head(f) # "$")
Expected(q) ==
    (IF NonMeta(q.filter) # <<>> THEN <<NonMeta(q.filter)>> ELSE <<>>)
    \o (IF q.sort # NoSort THEN q.sort ELSE <<>>)

\* No field of the query is typed object or array by the schema
NoContainer(q) ==
    \A j \in DOMAIN Expected(q) : \A n \in DOMAIN Expected(q)[j] :
        \A m \in DOMAIN Meta :
            Meta[m].k = KeyOf(Expected(q)[j])[n].k => Meta[m].v \notin {"object", "array"}

QueryEvents(s) == {j \in DOMAIN log[s] : log[s][j].type = "autoIndexer.query"}

\* C7: with sortIndexes disabled and no container-typed field, the candidates
\* delivered to autoIndexer.query and reconciled are the filter-derived
\* candidate (when it has a field), then the sort clause verbatim (when there
\* is one), and nothing else.
C7_Candidates ==
    \A s \in Slots :
        (~settings.sortIndexes /\ NoContainer(asked[s])) =>
            /\ \A j \in QueryEvents(s) : log[s][j].indexes = Expected(asked[s])
            /\ pc[s] = "forEach" =>
                /\ indexes[s] = Expected(asked[s])
                /\ DOMAIN task[s] = DOMAIN Expected(asked[s])
                /\ QueryEvents(s) # {}

\* C7 witness: filter {$or, role, name} with sort [role, -name] was delivered
\* as [role, name] then [role, -name].
C7_Witness ==
    \E s \in Slots :
        /\ ~settings.sortIndexes
        /\ asked[s] = Q(<<or, role, name>>, Sort(<<role, Desc(name)>>))
        /\ pc[s] = "done"
        /\ \E j \in QueryEvents(s) :
            log[s][j].indexes = <<<<role, name>>, <<role, Desc(name)>>>>

FieldsOrdered(index) ==
    \A j, n \in DOMAIN index : j < n => ~StrLess(index[n], index[j])
ListOrdered(list) ==
    \A j, n \in DOMAIN list :
        j < n => ~StrLess(join(list[n], <<",">>), join(list[j], <<",">>))

\* C8: with sortIndexes enabled, every candidate delivered to autoIndexer.query
\* has its fields in lexicographic order and the list is ordered by the
\* candidates' comma-joined text: filter {role} with sort [name] delivers
\* [name] then [role].
C8_Sorted ==
    \A s \in Slots : \A j \in QueryEvents(s) :
        settings.sortIndexes =>
            /\ \A n \in DOMAIN log[s][j].indexes : FieldsOrdered(log[s][j].indexes[n])
            /\ ListOrdered(log[s][j].indexes)
            /\ asked[s] = Q(<<role>>, Sort(<<name>>)) =>
                log[s][j].indexes = <<<<name>>, <<role>>>>

\* C8 witness: filter {role} with sort [name] was delivered as [name], [role].
C8_Witness ==
    \E s \in Slots : \E j \in QueryEvents(s) :
        /\ settings.sortIndexes
        /\ asked[s] = Q(<<role>>, Sort(<<name>>))
        /\ log[s][j].indexes = <<<<name>>, <<role>>>>

\* The existingIndexes task of s runs in this step
Looks(s) == pc[s] = "parallel" /\ fetch[s] = "pending" /\ fetch'[s] # "pending"

\* C9: a query uses the cache entry, calling no getIndexes, if and only if
\* now - created < indexThrottle; otherwise (the entry absent, or
\* now - created >= indexThrottle) it calls getIndexes and replaces the entry
\* with the fetched list stamped with the current time.
C9_FreshIffWithinThrottle ==
    [][\A s \in Slots :
        /\ Looks(s) =>
            (fetch'[s] = "finished" <=>
                /\ aiIndexCache # <<>>
                /\ now - aiIndexCache[1].created < settings.indexThrottle)
        /\ (fetch[s] = "served" /\ fetch'[s] = "finished") =>
            aiIndexCache' = <<[created |-> now, indexes |-> reply[s][1].indexes]>>
      ]_vars

\* C10: when getIndexes fails the hook completes with the fetch error, fires no
\* autoIndexer.build and issues no createIndex, and the failed fetch leaves the
\* cache entry as it was.
C10_FetchFailure ==
    /\ [](\A s \in Slots :
            fetch[s] = "failed" =>
                /\ task[s] = <<>>
                /\ pc[s] = "done" => log[s] = <<[type |-> "done", err |-> "fetch"]>>)
    /\ [][\A s \in Slots :
            (fetch[s] = "served" /\ reply[s][1].err /\ fetch'[s] # "served") =>
                aiIndexCache' = aiIndexCache]_vars

\* C10 witness: a query whose fetch failed is done and the stale cache entry is
\* still there.
C10_Witness ==
    \E s \in Slots :
        /\ fetch[s] = "failed"
        /\ pc[s] = "done"
        /\ aiIndexCache # <<>>

\* C11: a candidate whose autoIndexer.build handler reported failure gets no
\* createIndex, while the query's other missing candidates are still built.
C11_VetoAborts ==
    \A t \in Tasks :
        task[t[1]][t[2]].veto => ~Has(task[t[1]][t[2]].log, "createIndex")

\* createIndex was issued for the candidate and the store failed it, and the
\* promise's .catch has run
CreateFailed(s, i) ==
    /\ task[s][i].pc \in {"postBuild", "finished"}
    /\ Has(task[s][i].log, "createIndex")
    /\ ~task[s][i].ok

\* What the hook passed to done
DoneEvents(s) == {j \in DOMAIN log[s] : log[s][j].type = "done"}

\* C12: with ignoreCreateErrors enabled, a candidate whose createIndex failed
\* still gets autoIndexer.postBuild, carrying the error; the query's other
\* candidates are still attempted and, the postBuild handlers succeeding, the
\* hook completes without error.
C12_IgnoredErrorReported ==
    \A t \in Tasks :
        LET s == t[1]
            events == task[t[1]][t[2]].log IN
        (settings.ignoreCreateErrors /\ CreateFailed(s, t[2])) =>
            /\ \E j \in DOMAIN events :
                /\ events[j].type = "autoIndexer.postBuild"
                /\ events[j].err # <<>>
            /\ pc[s] = "done" =>
                /\ \A i \in DOMAIN task[s] : task[s][i].pc = "finished"
                /\ err[s] # "hook" => \A j \in DoneEvents(s) : log[s][j].err = "none"

\* C13: with ignoreCreateErrors disabled, a query one of whose createIndex
\* calls failed completes with an error: done is called with an error value.
C13_CreateErrorSurfaced ==
    \A t \in Tasks :
        (~settings.ignoreCreateErrors /\ CreateFailed(t[1], t[2]) /\ pc[t[1]] = "done") =>
            \A j \in DoneEvents(t[1]) : log[t[1]][j].err # "none"

\* The candidate has a field, plain or '-'-prefixed, the schema types object
\* or array
HasContainer(index) ==
    \E n \in DOMAIN index : \E m \in DOMAIN Meta :
        /\ Meta[m].k = KeyOf(index)[n].k
        /\ Meta[m].v \in {"object", "array"}

\* C19: no candidate with a field typed object or array, ascending or
\* descending, is delivered to autoIndexer.query or gets a createIndex.
C19_ContainersRemoved ==
    \A s \in Slots :
        /\ \A j \in QueryEvents(s) : \A n \in DOMAIN log[s][j].indexes :
            ~HasContainer(log[s][j].indexes[n])
        /\ \A i \in DOMAIN task[s] :
            Has(task[s][i].log, "createIndex") => ~HasContainer(indexes[s][i])

\* ------------------------------------------------------------ the cleaner
CleanTasks == DOMAIN cleanTask
Cleaned(j) == Has(cleanTask[j].log, "autoIndexer.clean")
Dropped(j) == Has(cleanTask[j].log, "dropIndex")

\* The key is exactly {_id}
IsPrimaryKey(spec) == Len(spec) = 1 /\ spec[1].k = id

\* C14: whatever the options, a caller's indexFilter accepting every index
\* included, no pass fires autoIndexer.clean for, or calls dropIndex on, the
\* index whose key is exactly {_id}.
C14_PrimaryKeyNeverCleaned ==
    \A j \in CleanTasks :
        IsPrimaryKey(cleanList[j].spec) => ~Cleaned(j) /\ ~Dropped(j)

\* The rows the map stage got from the accepted models
Rows == UNION {{cleanFound[m][1][j] : j \in DOMAIN cleanFound[m][1]} :
                m \in {n \in ModelIds : cleanFound[n] # <<>>}}

\* The row with the schema its model reports, when ignoreManualSpec asks for it
WithMeta(row) ==
    IF cleanSettings.ignoreManualSpec
    THEN [row EXCEPT !.meta = <<MetaIndexes(row.model)>>] ELSE row

\* The pass is over and its statistics, schema and autoIndexer.consider stages
\* did not fail
RanThrough ==
    /\ cleanPc \in {"done", "thrown"}
    /\ cleanErr \notin {"stats", "meta", "hook"}

\* C15: in a pass that is not a dry run, whatever hitMin is, no index with
\* hitMin hits or more is dropped, and every index of an accepted collection
\* that is not the primary key's, passes the inclusion predicates and has
\* fewer than hitMin hits has had dropIndex called for it once the pass is over.
C15_DroppedIffBelowHitMin ==
    ~cleanSettings.dryRun =>
        /\ \A j \in CleanTasks :
            Dropped(j) => cleanList[j].hits < cleanSettings.hitMin
        /\ RanThrough =>
            \A row \in Rows :
                (/\ ~IsPrimaryKey(row.spec)
                 /\ indexFilter(WithMeta(row), cleanSettings) = "true"
                 /\ row.hits < cleanSettings.hitMin) =>
                    \E j \in CleanTasks :
                        /\ cleanList[j].model = row.model
                        /\ cleanList[j].spec = row.spec
                        /\ Dropped(j)

\* C16: a dry run never calls dropIndex, whatever fails, so the stores stay as
\* they are, and it has fired autoIndexer.clean once for each candidate the
\* filters left when it is over.
C16_DryRunNeverDrops ==
    /\ [](cleanSettings.dryRun =>
            /\ \A j \in CleanTasks :
                /\ ~Dropped(j)
                /\ Count(cleanTask[j].log, "autoIndexer.clean") <= 1
            /\ (cleanPc = "done" /\ cleanErr = "none") =>
                \A j \in DOMAIN cleanList :
                    /\ j \in CleanTasks
                    /\ Count(cleanTask[j].log, "autoIndexer.clean") = 1)
    /\ [][cleanSettings.dryRun => store' = store /\ widgets' = widgets]_vars

\* C16 witness: a dry run is over, having fired autoIndexer.clean for a
\* candidate.
C16_Witness ==
    /\ cleanSettings.dryRun
    /\ cleanPc = "done"
    /\ \E j \in CleanTasks : cleanTask[j].log = <<[type |-> "autoIndexer.clean"]>>

\* The schema declares an index on the path of the key's first field
ManuallyIndexed(modelId, spec) ==
    \E n \in DOMAIN MetaIndexes(modelId) :
        /\ MetaIndexes(modelId)[n].k = spec[1].k
        /\ MetaIndexes(modelId)[n].v.index

\* C17: with ignoreManualSpec enabled, whatever the other options, a caller's
\* indexFilter included, an index on a path the schema declares indexed gets no
\* autoIndexer.clean and no dropIndex, whatever its hit count.
C17_ManualSpecKept ==
    cleanSettings.ignoreManualSpec =>
        \A j \in CleanTasks :
            ManuallyIndexed(cleanList[j].model, cleanList[j].spec) =>
                ~Cleaned(j) /\ ~Dropped(j)

\* The models the pass's modelFilter rejected
Rejected == ModelIds \ cleanSettings.modelFilter

\* C18: a pass whose modelFilter rejects a collection asks no statistics for
\* it, gives autoIndexer.consider no entry for it, drops none of its indexes
\* and completes without error, cleaning the accepted collections.
C18_RejectedSkipped ==
    (cleanPc # "idle" /\ Rejected # {}) =>
        /\ \A j \in DOMAIN cleanLog :
            /\ cleanLog[j].type = "$indexStats" => cleanLog[j].model \notin Rejected
            /\ cleanLog[j].type = "autoIndexer.consider" =>
                \A n \in DOMAIN cleanLog[j].indexes :
                    /\ cleanLog[j].indexes[n] # Undefined
                    /\ cleanLog[j].indexes[n].model \notin Rejected
        /\ \A j \in CleanTasks : cleanList[j].model \notin Rejected
        /\ cleanPc # "thrown"
        /\ (cleanPc = "done" /\ cleanErr = "none") =>
            cleanLog[Len(cleanLog)] = [type |-> "finish", err |-> "none"]

\* ------------------------------------------------------ cache and creates
\* The keys createIndex calls of the hook have created, in canonical form
CreatedKeys ==
    built \cup {Canon(task[t[1]][t[2]].spec) :
                    t \in {u \in Tasks : task[u[1]][u[2]].ok}}

\* A createIndex call has been issued and its promise has not settled
CreateInFlight ==
    \E t \in Tasks : task[t[1]][t[2]].pc \in {"creating", "settled"}

\* The cached snapshot lists every created key
SnapshotComplete ==
    \A key \in CreatedKeys :
        \E j \in DOMAIN aiIndexCache[1].indexes :
            Canon(aiIndexCache[1].indexes[j].key) = key

\* C20: with indexResetOnBuild enabled, under any interleaving of
\* queries, whenever there is a cache entry and no createIndex is in flight,
\* the cached snapshot has the key of every index the hook created.
C20_SnapshotComplete ==
    (settings.indexResetOnBuild /\ aiIndexCache # <<>> /\ ~CreateInFlight) =>
        SnapshotComplete

\* ------------------------------------------------------- the query object
\* C22: whatever sortIndexes is, once the hook has completed the query object
\* is as the caller passed it: its sort clause has the same fields in the same
\* order and its filter the same keys.
C22_QueryUnchanged ==
    \A s \in Slots :
        pc[s] = "done" =>
            /\ query[s].sort = asked[s].sort
            /\ query[s].filter = asked[s].filter

\* ------------------------------------------------- a drop, then a query
\* The keys of the queried collection the cleaner has dropped and no
\* createIndex has brought back
DroppedKeys ==
    {Canon(cleanList[j].spec) :
        j \in {n \in CleanTasks : cleanTask[n].ok /\ cleanList[n].model = users}}
    \ {Canon(store[j].key) : j \in DOMAIN store}

\* C21: once a cleaning pass has dropped an index of the collection, the next
\* query with a candidate of that key issues createIndex for it, wherever the
\* query falls in the throttle window: such a candidate is never skipped as
\* existing.
C21_DroppedIsRebuilt ==
    (cleanPc = "done" /\ pc[1] = "forEach") =>
        \A i \in DOMAIN task[1] :
            (task[1][i].pc = "finished" /\ Canon(task[1][i].spec) \in DroppedKeys) =>
                Has(task[1][i].log, "createIndex")

\* The key, in canonical form, is listed in the snapshot
Lists(snapshot, key) == \E j \in DOMAIN snapshot : Canon(snapshot[j].key) = key

\* C21, amended: once a cleaning pass has dropped an index of the collection,
\* the next query with a candidate of that key issues createIndex for it
\* unless its lookup was served a cache entry listing the key: the candidate
\* is skipped as existing only then, the entry having been fetched before the
\* drop, which leaves it in place.
C21_DroppedIsRebuiltUnlessCached ==
    (cleanPc = "done" /\ pc[1] = "forEach") =>
        \A i \in DOMAIN task[1] :
            (task[1][i].pc = "finished" /\ Canon(task[1][i].spec) \in DroppedKeys) =>
                \/ Has(task[1][i].log, "createIndex")
                \/ /\ Lists(existingIndexes[1], Canon(task[1][i].spec))
                   /\ aiIndexCache # <<>> => aiIndexCache[1].indexes = existingIndexes[1]

\* C21 witness: the cleaner has dropped an index and the next query, having
\* asked the store, has issued createIndex for that key.
C21_Witness ==
    /\ cleanPc = "done"
    /\ pc[1] = "forEach"
    /\ \E i \in DOMAIN task[1] :
        /\ task[1][i].pc = "creating"
        /\ Canon(task[1][i].spec) \in DroppedKeys

====
